---- MODULE Spec2Model ----
(***************************************************************************)
(* Space Elevator MVP (backend/main.py): the cabin state record State, the *)
(* setpoint SETPOINT_MS, the asyncio guard LOCK, the command handler       *)
(* send_command, the simulation loop sim_loop, the deferred recovery task  *)
(* _clear_error and the broadcast hub.                                     *)
(*                                                                         *)
(* Floats are modelled as fixed-point integers: a position is a number of  *)
(* 1/KmScale km and a speed a number of 1/MsScale m/s.  The scales are     *)
(* chosen so that the tick's step (SETPOINT_MS / 1000.0) * TICK and the    *)
(* thresholds 0.01, 0.005 and 0.1 are exact.  Float rounding is not        *)
(* modelled.                                                               *)
(***************************************************************************)
EXTENDS Integers, Sequences, FiniteSets, TLC

VARIABLES
    State,        \* the dict STATE of main.py:15-23 (STATE is a reserved word here)
    SETPOINT_MS,  \* the global SETPOINT_MS (main.py:24)
    PARCELS,      \* the list PARCELS (main.py:25)
    CLIENTS,      \* the list CLIENTS (main.py:26)
    LOCK,         \* the asyncio.Lock LOCK (main.py:27): whether it is held
    timers,       \* the pending _clear_error tasks, oldest first (main.py:108)
    pcLoop,       \* where sim_loop is (main.py:58-84)
    pcTimer,      \* where the oldest _clear_error task is (main.py:127-131)
    req,          \* the send_command request in flight, if any (main.py:95-125)
    bc,           \* the locals of sim_loop's broadcast call (main.py:43-53)
    pb,           \* the locals of add_parcel's broadcast call (main.py:140, 43-53)
    snap,         \* history: the last read of STATE, by whom, and under the guard or not
    stalled,      \* observers whose send_text does not return
    broken,       \* observers whose send_text raises
    ticks,        \* how many iterations of sim_loop have run
    last          \* history: which recovery task fired last, if the last step was one

world == <<State, SETPOINT_MS, PARCELS>>
task_vars == <<LOCK, pcLoop, pcTimer, req>>
hub_vars == <<CLIENTS, bc, pb, snap, stalled, broken>>
vars == <<State, SETPOINT_MS, PARCELS, CLIENTS, LOCK, timers, pcLoop, pcTimer,
          req, bc, pb, snap, stalled, broken, ticks, last>>

----------------------------------------------------------------------------
(* Fixed-point representation and the program's constants.                 *)

KmScale == 500000     \* units of position_km / target_km per km
MsScale == 100        \* units of speed_ms / SETPOINT_MS per m/s

TickNum == 2          \* TICK = 0.2 = TickNum / TickDen
TickDen == 10
MetresPerKm == 1000   \* the 1000.0 of SETPOINT_MS / 1000.0
KmMax == 100          \* min(100.0, km)
MsMax == 200          \* min(200.0, ms)
MsDefault == 20       \* SETPOINT_MS = 20.0

MoveThreshold   == KmScale \div 100          \* 0.01 km
ArriveThreshold == (5 * KmScale) \div 1000   \* 0.005 km
DoorThreshold   == MsScale \div 10           \* 0.1 m/s

\* Bounds of the model.
MaxTicks == 2      \* iterations of sim_loop
MaxTimers == 1     \* _clear_error tasks pending at once
MaxParcels == 1    \* parcels in PARCELS

Abs(x) == IF x < 0 THEN -x ELSE x
Min(a, b) == IF b < a THEN b ELSE a
Max(a, b) == IF b > a THEN b ELSE a

----------------------------------------------------------------------------
(* Payloads: (cmd.payload or {}).get(field, default).                      *)

NoField == [has |-> FALSE, val |-> 0]
Field(v) == [has |-> TRUE, val |-> v]
PayloadGet(p, default) == IF p.has THEN p.val ELSE default

\* a field whose value float() does not accept: a string that is no number, a
\* list, None
Unparsable(s) == [has |-> TRUE, val |-> 0, text |-> s]
IsUnparsable(p) == "text" \in DOMAIN p

\* float(...) of the inputs tried, in fixed-point units.
KmInputs == {-10 * KmScale, 7000, 150 * KmScale}
MsInputs == {-1 * MsScale, 10, 500 * MsScale}
ClampedMsInputs == {-1 * MsScale, 500 * MsScale}
DoorInputs == {"OPEN", "CLOSED", "ajar"}
WeightInputs == {5}

\* Positions sim_loop reaches: the start, and 99.94 km on the way up to 100 km
\* (24985 ticks at the default setpoint, then stop and set_target(0)).
NearTop == KmMax * KmScale - 30000
InitPositions == {0, NearTop}

----------------------------------------------------------------------------
(* send_command (main.py:94-125).  A command is its action, the "state"    *)
(* field of its payload (a string, "none" when absent) and the numeric     *)
(* field of its payload ("km" or "ms").                                    *)

Cmd(a, want, p) == [action |-> a, state |-> want, num |-> p]

\* mutant: the lower bound forgotten
ClampKmNoLower(km) == Min(KmMax * KmScale, km)
ClampKm(km) == Max(0, Min(KmMax * KmScale, km))

\* mutant: the upper bound forgotten
ClampMsNoUpper(ms) == Max(0, ms)
ClampMs(ms) == Max(0, Min(MsMax * MsScale, ms))

\* mutant: the test of the doors forgotten
StartAllowedAlways(S) == TRUE
StartAllowed(S) == S.doors # "OPEN"

\* mutant: <= for <
DoorsAllowedAtThreshold(S) == Abs(S.speed_ms) <= DoorThreshold
DoorsAllowed(S) == Abs(S.speed_ms) < DoorThreshold

\* the index of the first QUEUED parcel, 0 when there is none
FirstQueued(ps) ==
    IF \E i \in 1..Len(ps) : ps[i].status = "QUEUED"
    THEN CHOOSE i \in 1..Len(ps) :
            /\ ps[i].status = "QUEUED"
            /\ \A j \in 1..(i - 1) : ps[j].status # "QUEUED"
    ELSE 0

\* STATE after the branch of the command
cmd_state(c, S, ps) ==
    CASE c.action = "start" ->
            IF StartAllowed(S)
            THEN [S EXCEPT !.running = TRUE, !.cabin = "MOVING"]
            ELSE S
      [] c.action = "stop" ->
            [S EXCEPT !.running = FALSE, !.cabin = "IDLE"]
      [] c.action = "emergency_stop" ->
            [S EXCEPT !.running = FALSE, !.cabin = "ERROR"]
      [] c.action = "set_doors" ->
            IF DoorsAllowed(S)
            THEN [S EXCEPT !.doors = IF c.state = "OPEN" THEN "OPEN" ELSE "CLOSED"]
            ELSE S
      [] c.action = "set_target" ->
            [S EXCEPT !.target_km = ClampKm(PayloadGet(c.num, 0))]
      [] c.action = "load_from_warehouse" ->
            IF FirstQueued(ps) = 0
            THEN S
            ELSE [S EXCEPT !.payload_kg = @ + ps[FirstQueued(ps)].weight_kg]
      [] OTHER -> S

\* SETPOINT_MS after the branch of the command
cmd_setpoint(c, sp) ==
    IF c.action = "set_speed" THEN ClampMs(PayloadGet(c.num, sp)) ELSE sp

\* PARCELS after the branch of the command
cmd_parcels(c, ps) ==
    IF c.action = "load_from_warehouse" /\ FirstQueued(ps) # 0
    THEN [ps EXCEPT ![FirstQueued(ps)].status = "LOADED"]
    ELSE ps

\* History kept with each pending recovery task: whether a command, and whether
\* a start, has been applied since the emergency_stop that created it; gen
\* tells a task from the one created before it.
NoteCmd(c) ==
    [i \in 1..Len(timers) |->
        [timers[i] EXCEPT !.start = @ \/ c.action = "start", !.cmd = TRUE]]

NextGen == IF timers = <<>> THEN 0 ELSE 1 - timers[Len(timers)].gen

\* asyncio.create_task(_clear_error()) on emergency_stop
cmd_timers(c) ==
    IF c.action = "emergency_stop"
    THEN Append(NoteCmd(c), [start |-> FALSE, cmd |-> FALSE, gen |-> NextGen])
    ELSE NoteCmd(c)

\* float(...) raises ValueError or TypeError (main.py:114, 117): nothing has
\* been assigned yet, and the exception leaves the handler
float_raises(c) ==
    /\ c.action \in {"set_target", "set_speed"}
    /\ IsUnparsable(c.num)

\* the body of send_command under the guard; last tells whether the handler
\* returned {"ok": True} ("op") or raised ("raised")
Apply(c) ==
    /\ c.action = "emergency_stop" => Len(timers) < MaxTimers
    /\ IF float_raises(c)
       THEN /\ UNCHANGED <<State, SETPOINT_MS, PARCELS, timers>>
            /\ last' = "raised"
       ELSE /\ State' = cmd_state(c, State, PARCELS)
            /\ SETPOINT_MS' = cmd_setpoint(c, SETPOINT_MS)
            /\ PARCELS' = cmd_parcels(c, PARCELS)
            /\ timers' = cmd_timers(c)
            /\ last' = "op"

\* One action per branch: the handler from acquiring the guard to releasing it.
Start ==
    /\ Apply(Cmd("start", "none", NoField))
    /\ UNCHANGED <<task_vars, hub_vars, ticks>>

Stop ==
    /\ Apply(Cmd("stop", "none", NoField))
    /\ UNCHANGED <<task_vars, hub_vars, ticks>>

EmergencyStop ==
    /\ Apply(Cmd("emergency_stop", "none", NoField))
    /\ UNCHANGED <<task_vars, hub_vars, ticks>>

SetDoors(want) ==
    /\ Apply(Cmd("set_doors", want, NoField))
    /\ UNCHANGED <<task_vars, hub_vars, ticks>>

SetTarget(p) ==
    /\ Apply(Cmd("set_target", "none", p))
    /\ UNCHANGED <<task_vars, hub_vars, ticks>>

SetSpeed(p) ==
    /\ Apply(Cmd("set_speed", "none", p))
    /\ UNCHANGED <<task_vars, hub_vars, ticks>>

LoadFromWarehouse ==
    /\ Apply(Cmd("load_from_warehouse", "none", NoField))
    /\ UNCHANGED <<task_vars, hub_vars, ticks>>

----------------------------------------------------------------------------
(* add_parcel (main.py:137-141): PARCELS.insert(0, p).                     *)

AddParcel(w) ==
    /\ Len(PARCELS) < MaxParcels
    /\ PARCELS' = <<[status |-> "QUEUED", weight_kg |-> w]>> \o PARCELS
    /\ last' = "op"
    /\ UNCHANGED <<State, SETPOINT_MS, timers, task_vars, hub_vars, ticks>>

----------------------------------------------------------------------------
(* One iteration of sim_loop under the guard (main.py:59-82).              *)

\* mutant: the test of running forgotten
movingIgnoresRunning(S) ==
    /\ S.doors # "OPEN"
    /\ Abs(S.target_km - S.position_km) > MoveThreshold

\* mutant: the test of the doors forgotten
movingDoorsIgnored(S) ==
    /\ S.running
    /\ Abs(S.target_km - S.position_km) > MoveThreshold

moving(S) ==
    /\ S.running
    /\ S.doors # "OPEN"
    /\ Abs(S.target_km - S.position_km) > MoveThreshold

direction(S) == IF S.target_km > S.position_km THEN 1 ELSE -1

\* (SETPOINT_MS / 1000.0) * TICK, in position units; the divisor is taken first
\* to keep the product small, and both divisions are exact
delta_km(sp) == (sp * TickNum) \div ((MsScale * MetresPerKm * TickDen) \div KmScale)

\* mutant: the test for having passed the target forgotten
arrivedNoPass(S, dir) == Abs(S.target_km - S.position_km) < ArriveThreshold

\* the arrival test, on the state after the step
arrived(S, dir) ==
    \/ (S.target_km - S.position_km) * dir <= 0
    \/ Abs(S.target_km - S.position_km) < ArriveThreshold

\* mutant: the snap to the target forgotten
ArriveNoSnap(S) == [S EXCEPT !.running = FALSE, !.speed_ms = 0, !.cabin = "IDLE"]

Arrive(S) ==
    [S EXCEPT !.position_km = S.target_km, !.running = FALSE,
              !.speed_ms = 0, !.cabin = "IDLE"]

\* mutant: cabin reset whether running or not
RestAlwaysIdle(S) == [S EXCEPT !.speed_ms = 0, !.cabin = "IDLE"]

\* the else branch: not moving
Rest(S) ==
    LET S1 == [S EXCEPT !.speed_ms = 0]
    IN  IF ~S1.running THEN [S1 EXCEPT !.cabin = "IDLE"] ELSE S1

sim_tick(S, sp) ==
    IF moving(S)
    THEN LET dir == direction(S)
             S1 == [S EXCEPT !.cabin = "MOVING",
                             !.position_km = @ + dir * delta_km(sp),
                             !.speed_ms = dir * sp]
         IN  IF arrived(S1, dir) THEN Arrive(S1) ELSE S1
    ELSE Rest(S)

\* the bound on the iterations of sim_loop
TickInBound == ticks < MaxTicks

\* One whole iteration with no observer registered: the guarded block, an empty
\* broadcast and the sleep.
Tick ==
    /\ TickInBound
    /\ State' = sim_tick(State, SETPOINT_MS)
    /\ ticks' = ticks + 1
    /\ last' = "op"
    /\ UNCHANGED <<SETPOINT_MS, PARCELS, timers, task_vars, hub_vars>>

----------------------------------------------------------------------------
(* _clear_error (main.py:127-131): the tasks sleep the same 1.5 s, so they *)
(* wake in the order they were created.                                    *)

\* mutant: the re-check of cabin forgotten
clear_errorAlways(S) == [S EXCEPT !.cabin = "IDLE"]

\* mutant: the reset forgotten
clear_errorNever(S) == S

clear_error(S) == IF S.cabin = "ERROR" THEN [S EXCEPT !.cabin = "IDLE"] ELSE S

\* history: what had been applied since this task's emergency_stop
Fired(t) ==
    IF t.start THEN "timer_after_start"
    ELSE IF t.cmd THEN "timer_after_cmd"
    ELSE "timer_quiet"

ClearError ==
    /\ timers # <<>>
    /\ State' = clear_error(State)
    /\ timers' = Tail(timers)
    /\ last' = Fired(Head(timers))
    /\ UNCHANGED <<SETPOINT_MS, PARCELS, task_vars, hub_vars, ticks>>

----------------------------------------------------------------------------
(* The tasks at the grain of their suspension points: `async with LOCK`   *)
(* may suspend until the guard is free, the guarded block runs without     *)
(* suspending, and broadcast suspends in every send_text.                  *)

Observers == {"a", "b"}

\* one observer, where the order of the registry does not matter
LiveObservers == {"a"}

NoReq == [pc |-> "none", cmd |-> Cmd("none", "none", NoField)]
\* start and got are history: the registry when the broadcast started and the
\* observers whose send_text has returned, in order
NoBroadcast == [i |-> 0, cur |-> "none", dead |-> <<>>, start |-> <<>>, got |-> <<>>]
NoParcelBroadcast == [pc |-> "none", i |-> 0, cur |-> "none", dead |-> <<>>]
NoSnapshot == [by |-> "none", held |-> FALSE]

\* mutant: the guard kept when the block raised
ExitGuardOnReturn(raised) == raised

\* `async with LOCK`: __aexit__ releases the lock whether the block returned or
\* raised; the value of LOCK afterwards
ExitGuard(raised) == FALSE

\* mutant: the guard not taken
LockAvailableAlways(l) == TRUE

\* asyncio.Lock: acquire returns only when the lock is not held
LockAvailable(l) == ~l

\* list.remove(x): the first occurrence goes; the ValueError is swallowed
ListRemove(seq, x) ==
    IF \E i \in 1..Len(seq) : seq[i] = x
    THEN LET k == CHOOSE i \in 1..Len(seq) :
                    seq[i] = x /\ \A j \in 1..(i - 1) : seq[j] # x
         IN  [i \in 1..(Len(seq) - 1) |-> IF i < k THEN seq[i] ELSE seq[i + 1]]
    ELSE seq

\* for ws in dead: CLIENTS.remove(ws)
RECURSIVE Prune(_, _)
Prune(clients, dead) ==
    IF dead = <<>> THEN clients
    ELSE Prune(ListRemove(clients, Head(dead)), Tail(dead))

\* broadcast runs on, without suspending, from the head of `for ws in CLIENTS`
\* with locals b: into the next send_text, or through the pruning of dead and
\* into asyncio.sleep(TICK).
Continue(b) ==
    IF b.i <= Len(CLIENTS)
    THEN /\ bc' = [b EXCEPT !.cur = CLIENTS[b.i], !.i = b.i + 1]
         /\ pcLoop' = "await"
         /\ UNCHANGED CLIENTS
    ELSE /\ bc' = [b EXCEPT !.i = 0, !.cur = "none"]
         /\ pcLoop' = "sleep"
         /\ CLIENTS' = Prune(CLIENTS, b.dead)

\* sim_loop: async with LOCK (main.py:59)
LoopAcquire ==
    /\ pcLoop = "acquire"
    /\ TickInBound
    /\ LockAvailable(LOCK)
    /\ LOCK' = TRUE
    /\ pcLoop' = "locked"
    /\ UNCHANGED <<world, CLIENTS, timers, pcTimer, req, bc, stalled, broken, ticks, last>>
    /\ UNCHANGED <<pb, snap>>

\* sim_loop: the guarded block, the release and the call of broadcast up to its
\* first suspension (main.py:60-83, 44-48)
LoopBody ==
    /\ pcLoop = "locked"
    /\ State' = sim_tick(State, SETPOINT_MS)
    /\ ticks' = ticks + 1
    /\ LOCK' = FALSE
    /\ snap' = [by |-> "sim_loop", held |-> LOCK']
    /\ Continue([i |-> 1, cur |-> "none", dead |-> <<>>, start |-> CLIENTS, got |-> <<>>])
    /\ last' = "op"
    /\ UNCHANGED <<SETPOINT_MS, PARCELS, timers, pcTimer, req, pb, stalled, broken>>

\* broadcast: send_text returns (main.py:48)
SendOk ==
    /\ pcLoop = "await"
    /\ bc.cur \notin (stalled \cup broken)
    /\ Continue([bc EXCEPT !.cur = "none", !.got = Append(@, bc.cur)])
    /\ UNCHANGED <<world, LOCK, timers, pcTimer, req, stalled, broken, ticks, last>>
    /\ UNCHANGED <<pb, snap>>

\* broadcast: send_text raises (main.py:49-50)
SendFail ==
    /\ pcLoop = "await"
    /\ bc.cur \in broken
    /\ Continue([bc EXCEPT !.cur = "none", !.dead = Append(@, bc.cur)])
    /\ UNCHANGED <<world, LOCK, timers, pcTimer, req, stalled, broken, ticks, last>>
    /\ UNCHANGED <<pb, snap>>

\* sim_loop: asyncio.sleep(TICK) returns (main.py:84)
LoopWake ==
    /\ pcLoop = "sleep"
    /\ pcLoop' = "acquire"
    /\ UNCHANGED <<world, CLIENTS, LOCK, timers, pcTimer, req, bc, stalled, broken, ticks, last>>
    /\ UNCHANGED <<pb, snap>>

\* a request for send_command arrives (main.py:94-96)
Request(c) ==
    /\ req.pc = "none"
    /\ c.action = "emergency_stop" => Len(timers) < MaxTimers
    /\ req' = [pc |-> "acquire", cmd |-> c]
    /\ UNCHANGED <<world, CLIENTS, LOCK, timers, pcLoop, pcTimer, bc, stalled, broken, ticks, last>>
    /\ UNCHANGED <<pb, snap>>

\* send_command: async with LOCK (main.py:97)
CmdAcquire ==
    /\ req.pc = "acquire"
    /\ LockAvailable(LOCK)
    /\ LOCK' = TRUE
    /\ req' = [req EXCEPT !.pc = "locked"]
    /\ UNCHANGED <<world, CLIENTS, timers, pcLoop, pcTimer, bc, stalled, broken, ticks, last>>
    /\ UNCHANGED <<pb, snap>>

\* send_command: the guarded block, the release and the return (main.py:98-125)
CmdBody ==
    /\ req.pc = "locked"
    /\ Apply(req.cmd)
    /\ LOCK' = ExitGuard(float_raises(req.cmd))
    /\ req' = NoReq
    /\ UNCHANGED <<CLIENTS, pcLoop, pcTimer, bc, stalled, broken, ticks>>
    /\ UNCHANGED <<pb, snap>>

\* _clear_error: the sleep is over, async with LOCK (main.py:128-129)
TimerAcquire ==
    /\ timers # <<>>
    /\ pcTimer = "sleep"
    /\ LockAvailable(LOCK)
    /\ LOCK' = TRUE
    /\ pcTimer' = "locked"
    /\ UNCHANGED <<world, CLIENTS, timers, pcLoop, req, bc, stalled, broken, ticks, last>>
    /\ UNCHANGED <<pb, snap>>

\* _clear_error: the guarded block and the release (main.py:130-131)
TimerBody ==
    /\ pcTimer = "locked"
    /\ State' = clear_error(State)
    /\ timers' = Tail(timers)
    /\ last' = Fired(Head(timers))
    /\ LOCK' = FALSE
    /\ pcTimer' = "sleep"
    /\ UNCHANGED <<SETPOINT_MS, PARCELS, CLIENTS, pcLoop, req, bc, stalled, broken, ticks>>
    /\ UNCHANGED <<pb, snap>>

\* ws_telemetry: an observer connects, is registered and is sent STATE as it
\* is; the handler takes no guard (main.py:145-147)
Connect(o) ==
    /\ o \notin (stalled \cup broken)
    /\ \A i \in 1..Len(CLIENTS) : CLIENTS[i] # o
    /\ CLIENTS' = Append(CLIENTS, o)
    /\ snap' = [by |-> "ws_telemetry", held |-> FALSE]
    /\ UNCHANGED <<world, LOCK, timers, pcLoop, pcTimer, req, bc, pb, stalled, broken, ticks, last>>

\* the peer of a registered observer stops reading: a send_text to it does not
\* return
Stall(o) ==
    /\ \E i \in 1..Len(CLIENTS) : CLIENTS[i] = o
    /\ o \notin (stalled \cup broken)
    /\ stalled' = stalled \cup {o}
    /\ UNCHANGED <<world, CLIENTS, LOCK, timers, pcLoop, pcTimer, req, bc, broken, ticks, last>>
    /\ UNCHANGED <<pb, snap>>

\* the connection of a registered observer breaks: a send_text to it raises
Break(o) ==
    /\ \E i \in 1..Len(CLIENTS) : CLIENTS[i] = o
    /\ o \notin broken
    /\ broken' = broken \cup {o}
    /\ stalled' = stalled \ {o}
    /\ UNCHANGED <<world, CLIENTS, LOCK, timers, pcLoop, pcTimer, req, bc, ticks, last>>
    /\ UNCHANGED <<pb, snap>>

\* ws_telemetry: receive_text raises WebSocketDisconnect and the handler
\* unregisters the observer (main.py:151-155)
Disconnect(o) ==
    /\ o \in broken
    /\ \E i \in 1..Len(CLIENTS) : CLIENTS[i] = o
    /\ CLIENTS' = ListRemove(CLIENTS, o)
    /\ UNCHANGED <<world, LOCK, timers, pcLoop, pcTimer, req, bc, stalled, broken, ticks, last>>
    /\ UNCHANGED <<pb, snap>>

\* get_status: STATE is returned as it is; the handler takes no guard
\* (main.py:90-92)
GetStatus ==
    /\ snap' = [by |-> "get_status", held |-> FALSE]
    /\ UNCHANGED <<world, CLIENTS, LOCK, timers, pcLoop, pcTimer, req, bc, pb,
                   stalled, broken, ticks, last>>

\* add_parcel's broadcast runs on, without suspending, with locals b: into the
\* next send_text, or through the pruning of dead and the return
ParcelContinue(b) ==
    IF b.i <= Len(CLIENTS)
    THEN /\ pb' = [b EXCEPT !.pc = "await", !.cur = CLIENTS[b.i], !.i = b.i + 1]
         /\ UNCHANGED CLIENTS
    ELSE /\ pb' = NoParcelBroadcast
         /\ CLIENTS' = Prune(CLIENTS, b.dead)

\* add_parcel: the insert and the call of broadcast up to its first suspension
\* (main.py:139-140, 44-48)
ParcelPost(w) ==
    /\ pb.pc = "none"
    /\ Len(PARCELS) < MaxParcels
    /\ PARCELS' = <<[status |-> "QUEUED", weight_kg |-> w]>> \o PARCELS
    /\ ParcelContinue([pc |-> "await", i |-> 1, cur |-> "none", dead |-> <<>>])
    /\ UNCHANGED <<State, SETPOINT_MS, LOCK, timers, pcLoop, pcTimer, req, bc, snap,
                   stalled, broken, ticks, last>>

\* add_parcel's broadcast: send_text returns (main.py:48)
ParcelSendOk ==
    /\ pb.pc = "await"
    /\ pb.cur \notin (stalled \cup broken)
    /\ ParcelContinue([pb EXCEPT !.cur = "none"])
    /\ UNCHANGED <<world, LOCK, timers, pcLoop, pcTimer, req, bc, snap,
                   stalled, broken, ticks, last>>

\* add_parcel's broadcast: send_text raises (main.py:49-50)
ParcelSendFail ==
    /\ pb.pc = "await"
    /\ pb.cur \in broken
    /\ ParcelContinue([pb EXCEPT !.cur = "none", !.dead = Append(@, pb.cur)])
    /\ UNCHANGED <<world, LOCK, timers, pcLoop, pcTimer, req, bc, snap,
                   stalled, broken, ticks, last>>

\* sim_loop with no bound on its iterations: async with LOCK (main.py:59)
RunAcquire ==
    /\ pcLoop = "acquire"
    /\ LockAvailable(LOCK)
    /\ LOCK' = TRUE
    /\ pcLoop' = "locked"
    /\ UNCHANGED <<world, CLIENTS, timers, pcTimer, req, bc, pb, snap, stalled, broken,
                   ticks, last>>

\* sim_loop with no bound on its iterations: the guarded block, the release and
\* the call of broadcast up to its first suspension (main.py:60-83, 44-48)
RunBody ==
    /\ pcLoop = "locked"
    /\ State' = sim_tick(State, SETPOINT_MS)
    /\ LOCK' = FALSE
    /\ snap' = [by |-> "sim_loop", held |-> LOCK']
    /\ Continue([i |-> 1, cur |-> "none", dead |-> <<>>, start |-> CLIENTS, got |-> <<>>])
    /\ last' = "op"
    /\ UNCHANGED <<SETPOINT_MS, PARCELS, timers, pcTimer, req, pb, stalled, broken, ticks>>

----------------------------------------------------------------------------
(* The state after construction (main.py:15-27), at the positions of       *)
(* InitPositions.                                                          *)

InitState(pos) ==
    [position_km |-> pos, speed_ms |-> 0, payload_kg |-> 0, doors |-> "CLOSED",
     running |-> FALSE, target_km |-> 0, cabin |-> "IDLE"]

InitTasks ==
    /\ CLIENTS = <<>>
    /\ LOCK = FALSE
    /\ timers = <<>>
    /\ pcLoop = "acquire"
    /\ pcTimer = "sleep"
    /\ req = NoReq
    /\ bc = NoBroadcast
    /\ stalled = {}
    /\ broken = {}
    /\ pb = NoParcelBroadcast
    /\ snap = NoSnapshot
    /\ ticks = 0
    /\ last = "init"

Init ==
    /\ \E pos \in InitPositions : State = InitState(pos)
    /\ SETPOINT_MS = MsDefault * MsScale
    /\ PARCELS = <<>>
    /\ InitTasks

Next ==
    \/ Start
    \/ Stop
    \/ EmergencyStop
    \/ \E want \in DoorInputs : SetDoors(want)
    \/ \E km \in KmInputs : SetTarget(Field(km))
    \/ SetTarget(NoField)
    \/ \E ms \in ClampedMsInputs : SetSpeed(Field(ms))
    \/ SetSpeed(NoField)
    \/ LoadFromWarehouse
    \/ \E w \in WeightInputs : AddParcel(w)
    \/ Tick
    \/ ClearError

Spec == Init /\ [][Next]_vars

\* The cabin without the warehouse: PARCELS stays empty.
CabinNext ==
    \/ Start
    \/ Stop
    \/ EmergencyStop
    \/ \E want \in DoorInputs : SetDoors(want)
    \/ \E km \in KmInputs : SetTarget(Field(km))
    \/ SetTarget(NoField)
    \/ \E ms \in MsInputs : SetSpeed(Field(ms))
    \/ SetSpeed(NoField)
    \/ Tick
    \/ ClearError

CabinSpec == Init /\ [][CabinNext]_vars

\* The commands that write running, cabin, doors and the target, the loop and
\* the recovery tasks.  A recovery task that has slept its 1.5 s is scheduled
\* and finds the guard free: no holder of the guard suspends.
RecoveryNext ==
    \/ Start
    \/ Stop
    \/ EmergencyStop
    \/ \E want \in DoorInputs : SetDoors(want)
    \/ \E km \in KmInputs : SetTarget(Field(km))
    \/ Tick
    \/ ClearError

FairSpec == Init /\ [][RecoveryNext]_vars /\ WF_vars(ClearError)


\* The tasks that take the guard, at the grain of their suspension points.
TaskCmds ==
    {Cmd("start", "none", NoField), Cmd("stop", "none", NoField),
     Cmd("emergency_stop", "none", NoField), Cmd("set_doors", "OPEN", NoField),
     Cmd("set_target", "none", Field(150 * KmScale)),
     Cmd("set_speed", "none", Field(500 * MsScale))}

TaskNext ==
    \/ LoopAcquire
    \/ LoopBody
    \/ LoopWake
    \/ \E c \in TaskCmds : Request(c)
    \/ CmdAcquire
    \/ CmdBody
    \/ TimerAcquire
    \/ TimerBody

TaskSpec == Init /\ [][TaskNext]_vars

\* The loop and the observers: no command is applied.
LoopStep == LoopAcquire \/ LoopBody \/ SendOk \/ SendFail \/ LoopWake

HubNext ==
    \/ LoopAcquire
    \/ LoopBody
    \/ SendOk
    \/ SendFail
    \/ LoopWake
    \/ \E o \in Observers : Connect(o)
    \/ \E o \in Observers : Stall(o)
    \/ \E o \in Observers : Break(o)
    \/ \E o \in Observers : Disconnect(o)
    \/ \E w \in WeightInputs : ParcelPost(w)
    \/ ParcelSendOk
    \/ ParcelSendFail

HubSpec == Init /\ [][HubNext]_vars


\* The tasks that take the guard and the handlers that read STATE: the status
\* query and a connecting observer, whose sends return.
ReadNext ==
    \/ LoopAcquire
    \/ LoopBody
    \/ SendOk
    \/ LoopWake
    \/ \E c \in TaskCmds : Request(c)
    \/ CmdAcquire
    \/ CmdBody
    \/ TimerAcquire
    \/ TimerBody
    \/ GetStatus
    \/ \E o \in LiveObservers : Connect(o)

ReadSpec == Init /\ [][ReadNext]_vars


\* The cabin under commands of every payload: a field absent, a number in or
\* out of range, a value float() does not accept.
BadInputs == {"abc"}

PayloadNext ==
    \/ CabinNext
    \/ \E t \in BadInputs : SetTarget(Unparsable(t))
    \/ \E t \in BadInputs : SetSpeed(Unparsable(t))

PayloadSpec == Init /\ [][PayloadNext]_vars

\* sim_loop with no bound on its iterations, from the state after
\* construction, among commands (two of them with a payload float() rejects),
\* recovery tasks and an observer whose sends return or raise.
LiveInit ==
    /\ State = InitState(0)
    /\ SETPOINT_MS = MsDefault * MsScale
    /\ PARCELS = <<>>
    /\ InitTasks

LiveCmds ==
    {Cmd("start", "none", NoField), Cmd("stop", "none", NoField),
     Cmd("emergency_stop", "none", NoField),
     Cmd("set_target", "none", Field(7000)),
     Cmd("set_target", "none", Unparsable("abc")),
     Cmd("set_speed", "none", Unparsable("abc"))}

LiveNext ==
    \/ RunAcquire
    \/ RunBody
    \/ SendOk
    \/ SendFail
    \/ LoopWake
    \/ \E c \in LiveCmds : Request(c)
    \/ CmdAcquire
    \/ CmdBody
    \/ TimerAcquire
    \/ TimerBody
    \/ \E o \in LiveObservers : Connect(o)
    \/ \E o \in LiveObservers : Break(o)
    \/ \E o \in LiveObservers : Disconnect(o)

\* The event loop runs every ready task: a guarded block runs to its release
\* without suspending, a send_text that returns or raises resumes broadcast,
\* the sleep of TICK ends, and asyncio.Lock wakes its waiters in FIFO order, so
\* sim_loop gets the guard although commands keep taking it.
LiveSpec ==
    /\ LiveInit
    /\ [][LiveNext]_vars
    /\ SF_vars(RunAcquire)
    /\ WF_vars(RunBody)
    /\ WF_vars(SendOk)
    /\ WF_vars(SendFail)
    /\ WF_vars(LoopWake)
    /\ WF_vars(CmdBody)
    /\ WF_vars(TimerBody)

\* One trip: set_target(50) and start from the state after construction, then
\* sim_loop alone, with no bound on its iterations.
ConvTarget == 50 * KmScale

Started == State.running \/ State.position_km # 0

\* one whole iteration of sim_loop with no observer registered
ConvTick ==
    /\ State' = sim_tick(State, SETPOINT_MS)
    /\ last' = "op"
    /\ UNCHANGED <<SETPOINT_MS, PARCELS, timers, task_vars, hub_vars, ticks>>

ConvInit ==
    /\ State = InitState(0)
    /\ SETPOINT_MS = MsDefault * MsScale
    /\ PARCELS = <<>>
    /\ InitTasks

ConvNext ==
    \/ State.target_km = 0 /\ SetTarget(Field(ConvTarget))
    \/ State.target_km = ConvTarget /\ ~Started /\ Start
    \/ Started /\ ConvTick

ConvSpec == ConvInit /\ [][ConvNext]_vars

----------------------------------------------------------------------------
(* Claims.                                                                 *)

TopKm == KmMax * KmScale
TopMs == MsMax * MsScale

\* C1: in every reachable state 0 <= position_km <= 100, 0 <= target_km <= 100
\* and 0 <= setpoint_ms <= 200.
C1_Ranges ==
    /\ 0 <= State.position_km /\ State.position_km <= TopKm
    /\ 0 <= State.target_km /\ State.target_km <= TopKm
    /\ 0 <= SETPOINT_MS /\ SETPOINT_MS <= TopMs

\* the cabin has run up to the clamped target 100 km at the clamped setpoint 200
C1_Witness ==
    /\ State.position_km = TopKm
    /\ State.target_km = TopKm
    /\ SETPOINT_MS = TopMs
    /\ ticks > 0

SpeedWithinSetpoint == Abs(State.speed_ms) <= SETPOINT_MS

\* C2 as stated: in every reachable state |speed_ms| <= setpoint_ms.
C2_Claim == SpeedWithinSetpoint

\* C2 as amended: |speed_ms| <= 200 in every reachable state; |speed_ms| <=
\* setpoint_ms holds after every iteration of sim_loop and is kept by every
\* step that leaves the setpoint alone (only set_speed can break it, until the
\* next iteration).
C2_Amended ==
    /\ [](Abs(State.speed_ms) <= TopMs)
    /\ [][/\ Tick => SpeedWithinSetpoint'
          /\ (SpeedWithinSetpoint /\ SETPOINT_MS' = SETPOINT_MS) => SpeedWithinSetpoint']_vars

\* the cabin runs at the full clamped setpoint
C2_Witness == Abs(State.speed_ms) = TopMs /\ State.cabin = "MOVING"

\* C3: an iteration of sim_loop never changes cabin from ERROR to IDLE.
C3_Claim == [][Tick => ~(State.cabin = "ERROR" /\ State'.cabin = "IDLE")]_vars

\* C5 as stated: when a start was applied between an emergency_stop and the
\* firing of its recovery task, the firing changes no field.
C5_Claim == [][(ClearError /\ Head(timers).start) => State' = State]_vars

\* C5 as amended: the firing of a recovery task changes nothing unless cabin is
\* ERROR when it holds the guard, and then only cabin, to IDLE; so it leaves
\* the result of an accepted start alone, and resets an ERROR that a rejected
\* start left or a later emergency_stop set.
C5_Amended ==
    [][ClearError =>
        /\ State.cabin # "ERROR" => State' = State
        /\ State.cabin = "ERROR" => State' = [State EXCEPT !.cabin = "IDLE"]
        /\ UNCHANGED <<SETPOINT_MS, PARCELS>>]_vars

\* a recovery task fired after a start and left cabin = MOVING
C5_Witness == last = "timer_after_start" /\ State.cabin = "MOVING" /\ State.running

\* the recovery task of the latest emergency_stop (the one of generation g) is
\* still pending and no command followed that emergency_stop
Quiet(g) ==
    /\ timers # <<>>
    /\ timers[Len(timers)].gen = g
    /\ ~timers[Len(timers)].cmd

\* C6: emergency_stop yields cabin = ERROR and running = false at once; with no
\* further command, its recovery task eventually fires, and cabin is IDLE (and
\* running false) when it has.
C6_Recovery ==
    /\ [][EmergencyStop => State'.cabin = "ERROR" /\ ~State'.running]_vars
    /\ [](last = "timer_quiet" => State.cabin = "IDLE" /\ ~State.running)
    /\ \A g \in {0, 1} : Quiet(g) ~> ~Quiet(g)

\* the recovery task of an emergency_stop fired with no command in between
C6_Witness == last = "timer_quiet" /\ State.cabin = "IDLE"

\* C7: set_doors(OPEN) leaves doors unchanged when |speed_ms| >= 0.1 and sets
\* doors = OPEN when |speed_ms| < 0.1, whatever running, cabin and target are.
C7_Doors ==
    [][SetDoors("OPEN") =>
        IF Abs(State.speed_ms) >= DoorThreshold
        THEN State'.doors = State.doors
        ELSE State'.doors = "OPEN"]_vars

\* the doors were opened at rest although a start had set running and MOVING
C7_Witness ==
    /\ State.doors = "OPEN"
    /\ State.running
    /\ State.cabin = "MOVING"

\* C9: while |target_km - position_km| <= 0.01, no start and no iteration of
\* sim_loop makes cabin = MOVING.
C9_Claim ==
    [][(Abs(State.target_km - State.position_km) <= MoveThreshold /\ (Start \/ Tick))
        => State'.cabin # "MOVING"]_vars

\* the tasks inside their guarded block
InCritical ==
    {t \in {"loop", "cmd", "timer"} :
        \/ t = "loop" /\ pcLoop = "locked"
        \/ t = "cmd" /\ req.pc = "locked"
        \/ t = "timer" /\ pcTimer = "locked"}

\* C4: at most one of command application, iteration of sim_loop and recovery
\* check is inside its guarded block, the guard is held exactly then, and
\* Cabin State and the setpoint change only in the step in which the one task
\* inside runs its block and releases the guard.
C4_Exclusive ==
    /\ [](Cardinality(InCritical) <= 1 /\ (LOCK <=> InCritical # {}))
    /\ [][world' # world =>
            /\ LOCK /\ Cardinality(InCritical) = 1
            /\ ~LOCK' /\ InCritical' = {}]_vars

\* a command holds the guard while sim_loop and a recovery task wait for it
C4_Witness ==
    /\ LOCK
    /\ req.pc = "locked"
    /\ pcLoop = "acquire"
    /\ timers # <<>> /\ pcTimer = "sleep"

\* C10: a send_text that hangs on one observer blocks neither the delivery to
\* the other observers nor the next iteration of sim_loop: while it hangs,
\* sim_loop can take a step.
C10_Claim == (pcLoop = "await" /\ bc.cur \in stalled) => ENABLED LoopStep

\* C8: after set_target(50) and start from position_km = 0, every iteration of
\* sim_loop moves position_km closer to 50 without passing it until the state
\* is cabin = IDLE, running = false, position_km = 50: in every state of the
\* trip, either that state is reached or the next iteration moves the cabin
\* strictly closer.
C8_Claim ==
    Started =>
        \/ /\ State.position_km = ConvTarget
           /\ ~State.running
           /\ State.cabin = "IDLE"
        \/ LET after == sim_tick(State, SETPOINT_MS).position_km
           IN  /\ after <= ConvTarget
               /\ ConvTarget - after < ConvTarget - State.position_km

\* how often x occurs in seq
Count(seq, x) == Cardinality({i \in 1..Len(seq) : seq[i] = x})

\* sim_loop's broadcast has returned: every observer that was registered when
\* it started was sent the snapshot exactly once (the send returned or raised)
DeliveredOnce ==
    pcLoop = "sleep" =>
        \A i \in 1..Len(bc.start) : Count(bc.got \o bc.dead, bc.start[i]) = 1

\* when a broadcast of sim_loop starts, no observer whose send_text raised in an
\* earlier broadcast or in add_parcel's broadcast is registered
FailedAreGone ==
    LoopBody =>
        \A i \in 1..Len(CLIENTS) :
            /\ Count(bc.dead, CLIENTS[i]) = 0
            /\ Count(pb.dead, CLIENTS[i]) = 0

\* C11: one broadcast delivers the snapshot exactly once to every observer
\* registered when it starts, also when observers disconnect or add_parcel's
\* broadcast runs during its delivery loop; and an observer whose delivery
\* failed is not registered when the next broadcast starts.
C11_Claim == []DeliveredOnce /\ [][FailedAreGone]_vars

\* C12: every read of Cabin State - the status query, the initial snapshot
\* sent to a connecting observer and the snapshot serialized for sim_loop's
\* broadcast - happens while the reader holds the guard.
C12_Claim == snap.by # "none" => snap.held

\* C14: send_command returns ok for every recognized action, in every state
\* and for every payload; it never signals an error to the caller.
C14_Claim == last # "raised"

\* C13: sim_loop never terminates: after any command, also one whose payload
\* makes the handler raise, and after any send_text that raises, the guard is
\* released and sim_loop holds it for a further iteration, again and again.
C13_Loop ==
    /\ []<>(pcLoop = "locked")
    /\ LOCK ~> ~LOCK
    /\ (last = "raised") ~> (pcLoop = "locked")
    /\ (pcLoop = "await" /\ bc.cur \in broken) ~> (pcLoop = "locked")

\* sim_loop holds the guard for a further iteration right after a command
\* raised and after its broadcast pruned an observer whose send_text raised
C13_Witness ==
    /\ pcLoop = "locked"
    /\ last = "raised"
    /\ \E o \in broken : Count(bc.dead, o) = 1 /\ Count(CLIENTS, o) = 0

\* C15: a start applied while doors = OPEN is ignored: no field of Cabin State
\* and not the setpoint changes, and the handler returns ok.
C15_StartIgnored ==
    [][(Start /\ State.doors = "OPEN") =>
        /\ State' = State
        /\ SETPOINT_MS' = SETPOINT_MS
        /\ last' = "op"]_vars

\* a start applied after an emergency_stop left cabin = ERROR: the doors were
\* open and the start was ignored
C15_Witness ==
    /\ timers # <<>>
    /\ Head(timers).start
    /\ State.cabin = "ERROR"
    /\ ~State.running
    /\ State.doors = "OPEN"

\* x brought to the nearest bound of [0, top]
Nearest(x, top) == IF x < 0 THEN 0 ELSE IF x > top THEN top ELSE x

\* C16: for every numeric input set_target(km) sets target_km to km clamped
\* to [0, 100] and set_speed(ms) sets setpoint_ms to ms clamped to [0, 200];
\* the command returns ok and changes no other field.
C16_Clamp ==
    [][/\ \A km \in KmInputs :
            SetTarget(Field(km)) =>
                /\ State' = [State EXCEPT !.target_km = Nearest(km, TopKm)]
                /\ SETPOINT_MS' = SETPOINT_MS
                /\ last' = "op"
       /\ \A ms \in MsInputs :
            SetSpeed(Field(ms)) =>
                /\ SETPOINT_MS' = Nearest(ms, TopMs)
                /\ State' = State
                /\ last' = "op"]_vars

\* set_target(150) gave 100 km and set_speed(-1) gave 0 while the cabin ran:
\* speed_ms kept the value of the last iteration
C16_Witness ==
    /\ State.target_km = TopKm
    /\ SETPOINT_MS = 0
    /\ State.speed_ms > 0

\* C17: no iteration of sim_loop changes position_km while running = false; in
\* particular not after the arrival at target_km.
C17_NoDrift ==
    [][(Tick /\ ~State.running) => State'.position_km = State.position_km]_vars

\* the cabin arrived at 0.014 km, then an emergency_stop, and an iteration of
\* sim_loop ran on the stopped cabin (it reset cabin to IDLE) before the
\* recovery task fired
C17_Witness ==
    /\ State.position_km = State.target_km
    /\ State.position_km \in KmInputs
    /\ ~State.running
    /\ State.cabin = "IDLE"
    /\ timers # <<>> /\ ~Head(timers).cmd

\* the distance to the target before the iteration, the step, and the state the
\* arrival leaves
Gap == Abs(State.target_km - State.position_km)
Step == delta_km(SETPOINT_MS)
Reaches == Step >= Gap \/ Gap - Step < ArriveThreshold
Arrived ==
    /\ State'.position_km = State.target_km
    /\ ~State'.running
    /\ State'.speed_ms = 0
    /\ State'.cabin = "IDLE"
Underway ==
    /\ (State.target_km - State'.position_km) * direction(State) > 0
    /\ State'.cabin = "MOVING"
    /\ State'.speed_ms = direction(State) * SETPOINT_MS
    /\ State'.running

\* C18 as stated: after an iteration in which the cabin moves, position_km is
\* either strictly closer to target_km on the same side (cabin = MOVING,
\* speed_ms = direction * setpoint_ms, running = true) or, when the step
\* reaches or passes the target or lands within 0.005 of it, exactly target_km
\* with running = false, speed_ms = 0 and cabin = IDLE.
C18_Claim ==
    [][(Tick /\ moving(State)) =>
        IF Reaches
        THEN Arrived
        ELSE Underway /\ Abs(State.target_km - State'.position_km) < Gap]_vars

\* C18 as amended: the same, but the cabin is strictly closer only when
\* setpoint_ms > 0; with setpoint_ms = 0 the iteration leaves position_km
\* where it is, with cabin = MOVING, running = true and speed_ms = 0.
C18_Amended ==
    [][(Tick /\ moving(State)) =>
        IF Reaches
        THEN Arrived
        ELSE /\ Underway
             /\ State'.position_km = State.position_km + direction(State) * Step
             /\ SETPOINT_MS > 0 => Abs(State.target_km - State'.position_km) < Gap
             /\ SETPOINT_MS = 0 => State'.position_km = State.position_km]_vars

\* an iteration ran the moving branch at setpoint 0: the cabin is MOVING at
\* speed 0, away from its target
C18_Witness ==
    /\ moving(State)
    /\ State.cabin = "MOVING"
    /\ SETPOINT_MS = 0
    /\ State.speed_ms = 0
    /\ ticks > 0

\* C19: in every reachable state running = true if and only if cabin = MOVING.
C19_RunningIffMoving == State.running <=> State.cabin = "MOVING"

\* after an iteration the cabin is still running and MOVING although it stands
\* at its target
C19_Witness ==
    /\ State.running
    /\ State.cabin = "MOVING"
    /\ Gap <= MoveThreshold
    /\ State.doors = "CLOSED"
    /\ ticks > 0

\* C20: in every reachable state doors = OPEN implies |speed_ms| < 0.1, and an
\* iteration of sim_loop with doors = OPEN leaves position_km unchanged and
\* sets speed_ms = 0, also when running = true.
C20_DoorsOpenAtRest ==
    /\ [](State.doors = "OPEN" => Abs(State.speed_ms) < DoorThreshold)
    /\ [][(Tick /\ State.doors = "OPEN") =>
            /\ State'.position_km = State.position_km
            /\ State'.speed_ms = 0]_vars

\* after an iteration the cabin is running with its doors open, away from its
\* target, at speed 0
C20_Witness ==
    /\ State.doors = "OPEN"
    /\ State.running
    /\ Gap > MoveThreshold
    /\ State.speed_ms = 0
    /\ ticks > 0

====
